---- MODULE Spec2Model ----
(***************************************************************************)
(* Model of the openai-responses client (src/src/lib.rs): one call of an   *)
(* entry point of Client (create, create_raw or stream) and, for stream,   *)
(* the generator that pumps the event source into the sequence handed to   *)
(* the consumer.                                                           *)
(*                                                                         *)
(* The HTTP server and the event source (reqwest_eventsource) are the      *)
(* environment: every status, body and notification they can hand to the   *)
(* client is drawn nondeterministically.                                   *)
(***************************************************************************)
EXTENDS Integers, Sequences, FiniteSets, TLC

VARIABLES
    call,       \* entry point invoked: "none", "create", "create_raw", "stream"
    request,    \* the Request the caller supplied
    wire,       \* the Request serialised as the body of the POST
    path,       \* how the POST is dispatched: "none", "buffered", "eventsource"
    reply,      \* what came back for the buffered POST
    result,     \* value returned by create / create_raw
    pc,         \* position of the generator body of stream
    slot,       \* element handed to the emitter and not yet taken by poll_next
    demand,     \* the consumer is inside next() on the sequence
    yielded,    \* elements the consumer has received, in order
    consumed,   \* notifications taken from the event source, in order
    ended,      \* the sequence has returned None
    dropped,    \* the consumer has dropped the sequence
    conn,       \* the event source: "none", "live", "released"
    codec,      \* the codec step last run: "idle", or a codec and its direction
    value,      \* the typed value handed to an encoder
    document,        \* the wire document an encoder produced or a decoder was given
    decoded,    \* what the decoder returned
    builder,    \* the fields of the ClientBuilder
    built,      \* what ClientBuilder::build returned
    onWire,     \* the headers of the last request the built Client put on the wire
    seqs        \* the sequences of concurrent stream calls on one Client, by name

facadeVars == <<call, request, wire, path, reply, result>>
streamVars == <<pc, slot, demand, yielded, consumed, ended, dropped, conn>>
codecVars == <<codec, value, document, decoded>>
builderVars == <<builder, built, onWire>>
pairVars == <<seqs>>
vars == <<call, request, wire, path, reply, result,
          pc, slot, demand, yielded, consumed, ended, dropped, conn,
          codec, value, document, decoded, builder, built, onWire, seqs>>

(***************************************************************************)
(* Bounds                                                                  *)
(***************************************************************************)
\* notifications the generator takes from one event source
MaxScript == 4

(***************************************************************************)
(* Option<T>: None is the empty sequence, Some(v) the one-element sequence *)
(***************************************************************************)
None == <<>>
Some(v) == <<v>>

(***************************************************************************)
(* Request (types/request.rs).  Only the fields the entry points touch or  *)
(* must leave alone are kept: the transport-mode flag and the model.       *)
(***************************************************************************)
Models == {"gpt-4o", "o1"}
Requests == [stream : {None, Some(TRUE), Some(FALSE)}, model : Models]
NoRequest == [stream |-> None, model |-> "-"]

(***************************************************************************)
(* Event (types/stream.rs): internally tagged by type.                   *)
(***************************************************************************)
EventVariants ==
    << <<"response.created", "ResponseCreated">>,
       <<"response.in_progress", "ResponseInProgress">>,
       <<"response.completed", "ResponseCompleted">>,
       <<"response.failed", "ResponseFailed">>,
       <<"response.incomplete", "ResponseIncomplete">>,
       <<"response.output_item.added", "OutputItemAdded">>,
       <<"response.output_item.done", "OutputItemDone">>,
       <<"response.content_part.added", "ContentPartAdded">>,
       <<"response.content_part.done", "ContentPartDone">>,
       <<"response.output_text.delta", "OutputTextDelta">>,
       <<"response.output_text.annotation.added", "OutputTextAnnotationAdded">>,
       <<"response.output_text.done", "OutputTextDone">>,
       <<"response.refusal.delta", "RefusalDelta">>,
       <<"response.refusal.done", "RefusalDone">>,
       <<"response.function_call_arguments.delta", "FunctionCallArgumentsDelta">>,
       <<"response.function_call_arguments.done", "FunctionCallArgumentsDone">>,
       <<"response.file_search_call.in_progress", "FileSearchCallInitiated">>,
       <<"response.file_search_call.searching", "FileSearchCallSearching">>,
       <<"response.file_search_call.completed", "FileSearchCallCompleted">>,
       <<"response.web_search_call.in_progress", "WebSearchCallInitiated">>,
       <<"response.web_search_call.searching", "WebSearchCallSearching">>,
       <<"response.web_search_call.completed", "WebSearchCallCompleted">>,
       <<"error", "Error">> >>

EventTags == {EventVariants[i][1] : i \in DOMAIN EventVariants}

VariantOf(tag) ==
    LET i == CHOOSE k \in DOMAIN EventVariants : EventVariants[k][1] = tag
    IN  EventVariants[i][2]

(***************************************************************************)
(* Payload texts of message frames, and what a JSON parser makes of each:  *)
(* json: the text is a JSON object; type: its type string ("" when the   *)
(* field is absent); fields: the other fields are those the variant named  *)
(* by type requires.                                                     *)
(***************************************************************************)
PayloadCreated == "{type:response.created,response:{...}}"
PayloadDelta == "{type:response.output_text.delta,content_index:0,delta:hi,item_id:m,output_index:0}"
PayloadUnknownTag == "{type:response.queued,response:{...}}"
PayloadNoType == "{response:{...}}"
PayloadMissingField == "{type:error,code:null}"
PayloadNotJson == "{type:response.created,"

Payloads == {PayloadCreated, PayloadDelta, PayloadUnknownTag, PayloadNoType,
             PayloadMissingField, PayloadNotJson}

ParseJson(text) ==
    CASE text = PayloadCreated ->
            [json |-> TRUE, type |-> "response.created", fields |-> TRUE]
      [] text = PayloadDelta ->
            [json |-> TRUE, type |-> "response.output_text.delta", fields |-> TRUE]
      [] text = PayloadUnknownTag ->
            [json |-> TRUE, type |-> "response.queued", fields |-> TRUE]
      [] text = PayloadNoType ->
            [json |-> TRUE, type |-> "", fields |-> TRUE]
      [] text = PayloadMissingField ->
            [json |-> TRUE, type |-> "error", fields |-> FALSE]
      [] OTHER ->
            [json |-> FALSE, type |-> "", fields |-> FALSE]

(***************************************************************************)
(* Elements of the sequence: Result<Event, StreamError>                    *)
(***************************************************************************)
NoElement == [tag |-> "-", of |-> "-"]
OkEvent(variant) == [tag |-> "Ok", of |-> variant]
ErrParsing(why) == [tag |-> "Parsing", of |-> why]
ErrStream(cause) == [tag |-> "Stream", of |-> cause]

\* faulty variant of DecodeEvent: a variant decoded although its fields are missing
DecodeEventLenient(text) ==
    LET doc == ParseJson(text) IN
    IF ~doc.json THEN ErrParsing("syntax")
    ELSE IF doc.type = "" THEN ErrParsing("missing field type")
    ELSE IF doc.type \notin EventTags THEN ErrParsing("unknown variant")
    ELSE OkEvent(VariantOf(doc.type))

\* serde_json::from_str::<Event>(&message.data)
DecodeEvent(text) ==
    LET doc == ParseJson(text) IN
    IF ~doc.json THEN ErrParsing("syntax")
    ELSE IF doc.type = "" THEN ErrParsing("missing field type")
    ELSE IF doc.type \notin EventTags THEN ErrParsing("unknown variant")
    ELSE IF ~doc.fields THEN ErrParsing("missing field")
    ELSE OkEvent(VariantOf(doc.type))

(***************************************************************************)
(* Notifications of the event source: Option<Result<Event, Error>>.        *)
(***************************************************************************)
StreamEnded == "StreamEnded"
ErrorKinds == {StreamEnded, "Transport", "InvalidStatusCode(400)"}

Open == [kind |-> "Open", data |-> "-"]
Message(text) == [kind |-> "Message", data |-> text]
Error(e) == [kind |-> "Error", data |-> e]
Closed == [kind |-> "Closed", data |-> "-"]

Notifications ==
    {Open, Closed} \cup {Message(p) : p \in Payloads} \cup {Error(e) : e \in ErrorKinds}


(***************************************************************************)
(* The buffered reply: status line and body of the HTTP response           *)
(***************************************************************************)
BAD_REQUEST == 400
Statuses == {200, 300, BAD_REQUEST, 404, 500}

BodyResponse == "{id:resp_1,object:response,status:completed,output:[]}"
BodyError == "{error:{message:bad,type:invalid_request_error}}"
BodyGarbage == "<html>bad gateway</html>"
Bodies == {BodyResponse, BodyError, BodyGarbage}

NoReply == [sent |-> FALSE, status |-> 0, body |-> "-"]
NoResult == [outer |-> "-", inner |-> "-", status |-> 0]
OkOk == [outer |-> "Ok", inner |-> "Ok(Response)", status |-> 0]
OkErr == [outer |-> "Ok", inner |-> "Err(Error)", status |-> 0]
ReqwestErr(kind) == [outer |-> "Err", inner |-> kind, status |-> 0]
OkRaw(status, body) == [outer |-> "Ok", inner |-> body, status |-> status]

\* StatusCode::is_client_error() || is_server_error(), as error_for_status tests
IsErrorStatus(status) == status >= 400 /\ status <= 599

\* lib.rs 218-220: every status but 400 goes through error_for_status
PassesStatusPolicy(status) ==
    IF status # BAD_REQUEST THEN ~IsErrorStatus(status) ELSE TRUE

\* response.json::<ResponseResult>().await.map(Into::into)
DecodeResponseResult(body) ==
    CASE body = BodyResponse -> OkOk
      [] body = BodyError -> OkErr
      [] OTHER -> ReqwestErr("Decode")

\* lib.rs 211-222: what create returns for a reply, or for a failed send
CreateResult(sent, status, body) ==
    IF ~sent THEN ReqwestErr("Request")
    ELSE IF ~PassesStatusPolicy(status) THEN ReqwestErr("Status")
    ELSE DecodeResponseResult(body)

\* lib.rs 344-357: create_raw hands back status and body untouched
CreateRawResult(sent, status, body) ==
    IF ~sent THEN ReqwestErr("Request") ELSE OkRaw(status, body)

(***************************************************************************)
(* Wire documents (JSON) as serde sees them: a shape, the text of a        *)
(* scalar, and for an object its entries in document order.                *)
(***************************************************************************)
NoDoc == [shape |-> "-", str |-> "", fields |-> <<>>]
JStr(s) == [shape |-> "string", str |-> s, fields |-> <<>>]
JNum(n) == [shape |-> "number", str |-> n, fields |-> <<>>]
JBool(b) == [shape |-> "bool", str |-> (IF b THEN "true" ELSE "false"), fields |-> <<>>]
JNull == [shape |-> "null", str |-> "", fields |-> <<>>]
JArray == [shape |-> "array", str |-> "", fields |-> <<>>]
JObj(entries) == [shape |-> "object", str |-> "", fields |-> entries]
Entry(k, v) == [key |-> k, val |-> v]

\* the value of the last entry with this key, as HashMap::insert keeps it
RECURSIVE Lookup(_, _)
Lookup(entries, k) ==
    IF entries = <<>> THEN NoDoc
    ELSE IF entries[Len(entries)].key = k THEN entries[Len(entries)].val
    ELSE Lookup(SubSeq(entries, 1, Len(entries) - 1), k)

HasKey(entries, k) == \E i \in 1..Len(entries) : entries[i].key = k

(***************************************************************************)
(* Values of the enums with hand-written or open codecs, and the results   *)
(* of decoding: Ok(value) or a serde error.                                *)
(***************************************************************************)
NoValue == [variant |-> "-", name |-> ""]
Unit(variant) == [variant |-> variant, name |-> ""]
Carrying(variant, s) == [variant |-> variant, name |-> s]

NoError == [kind |-> "-", what |-> "", expected |-> <<>>]
NoDecoded == [ok |-> FALSE, v |-> NoValue, err |-> NoError]
DecodedOk(v) == [ok |-> TRUE, v |-> v, err |-> NoError]
UnknownVariant(tag, accepted) ==
    [ok |-> FALSE, v |-> NoValue,
     err |-> [kind |-> "unknown variant", what |-> tag, expected |-> accepted]]
MissingField(field) ==
    [ok |-> FALSE, v |-> NoValue,
     err |-> [kind |-> "missing field", what |-> field, expected |-> <<>>]]
InvalidType(shape, wanted) ==
    [ok |-> FALSE, v |-> NoValue,
     err |-> [kind |-> "invalid type", what |-> shape, expected |-> <<wanted>>]]

(***************************************************************************)
(* ToolChoice (types/tools.rs 173-293)                                     *)
(***************************************************************************)
FunctionNames == {"f", "auto", ""}
ToolChoices ==
    {Unit("None"), Unit("Auto"), Unit("Required"), Unit("FileSearch"),
     Unit("WebSearchPreview"), Unit("ComputerUsePreview")}
    \cup {Carrying("Function", n) : n \in FunctionNames}

\* faulty variant of SerializeToolChoice: Function written type first
SerializeToolChoiceTypeFirst(v) ==
    CASE v.variant = "None" -> JStr("none")
      [] v.variant = "Auto" -> JStr("auto")
      [] v.variant = "Required" -> JStr("required")
      [] v.variant = "FileSearch" -> JObj(<<Entry("type", JStr("file_search"))>>)
      [] v.variant = "WebSearchPreview" ->
            JObj(<<Entry("type", JStr("web_search_preview"))>>)
      [] v.variant = "ComputerUsePreview" ->
            JObj(<<Entry("type", JStr("computer_use_preview"))>>)
      [] v.variant = "Function" ->
            JObj(<<Entry("type", JStr("function")), Entry("name", JStr(v.name))>>)

\* impl Serialize for ToolChoice
SerializeToolChoice(v) ==
    CASE v.variant = "None" -> JStr("none")
      [] v.variant = "Auto" -> JStr("auto")
      [] v.variant = "Required" -> JStr("required")
      [] v.variant = "FileSearch" -> JObj(<<Entry("type", JStr("file_search"))>>)
      [] v.variant = "WebSearchPreview" ->
            JObj(<<Entry("type", JStr("web_search_preview"))>>)
      [] v.variant = "ComputerUsePreview" ->
            JObj(<<Entry("type", JStr("computer_use_preview"))>>)
      [] v.variant = "Function" ->
            JObj(<<Entry("name", JStr(v.name)), Entry("type", JStr("function"))>>)

StringLiterals == <<"none", "auto", "required">>
ObjectTags == <<"file_search", "web_search_preview", "computer_use_preview", "function">>

\* faulty variant of VisitStr: required is read as auto
VisitStrRequiredAsAuto(s) ==
    CASE s = "none" -> DecodedOk(Unit("None"))
      [] s = "auto" -> DecodedOk(Unit("Auto"))
      [] s = "required" -> DecodedOk(Unit("Auto"))
      [] OTHER -> UnknownVariant(s, StringLiterals)

\* ToolChoiceVisitor::visit_str
VisitStr(s) ==
    CASE s = "none" -> DecodedOk(Unit("None"))
      [] s = "auto" -> DecodedOk(Unit("Auto"))
      [] s = "required" -> DecodedOk(Unit("Required"))
      [] OTHER -> UnknownVariant(s, StringLiterals)

\* lines 224-228: every entry is read as a (String, String) pair, so the
\* first entry whose value is not a string fails the whole decode
AllStringValued(entries) ==
    \A i \in 1..Len(entries) : entries[i].val.shape = "string"
FirstNonString(entries) ==
    entries[CHOOSE i \in 1..Len(entries) :
                /\ entries[i].val.shape # "string"
                /\ \A j \in 1..(i - 1) : entries[j].val.shape = "string"].val

\* faulty variant of DispatchOnType: an unknown tag defaults to FileSearch
DispatchOnTypeDefaulting(entries) ==
    LET type == Lookup(entries, "type").str IN
    CASE type = "web_search_preview" -> DecodedOk(Unit("WebSearchPreview"))
      [] type = "computer_use_preview" -> DecodedOk(Unit("ComputerUsePreview"))
      [] type = "function" ->
            IF ~HasKey(entries, "name") THEN MissingField("name")
            ELSE DecodedOk(Carrying("Function", Lookup(entries, "name").str))
      [] OTHER -> DecodedOk(Unit("FileSearch"))

\* faulty variant of DispatchOnType: a function without a name gets the empty name
DispatchOnTypeUnnamed(entries) ==
    LET type == Lookup(entries, "type").str IN
    CASE type = "file_search" -> DecodedOk(Unit("FileSearch"))
      [] type = "web_search_preview" -> DecodedOk(Unit("WebSearchPreview"))
      [] type = "computer_use_preview" -> DecodedOk(Unit("ComputerUsePreview"))
      [] type = "function" -> DecodedOk(Carrying("Function", Lookup(entries, "name").str))
      [] OTHER -> UnknownVariant(type, ObjectTags)

\* lines 234-253: dispatch on the type collected
DispatchOnType(entries) ==
    LET type == Lookup(entries, "type").str IN
    CASE type = "file_search" -> DecodedOk(Unit("FileSearch"))
      [] type = "web_search_preview" -> DecodedOk(Unit("WebSearchPreview"))
      [] type = "computer_use_preview" -> DecodedOk(Unit("ComputerUsePreview"))
      [] type = "function" ->
            IF ~HasKey(entries, "name") THEN MissingField("name")
            ELSE DecodedOk(Carrying("Function", Lookup(entries, "name").str))
      [] OTHER -> UnknownVariant(type, ObjectTags)

\* faulty variant of VisitMap: the name is required before the type is looked at
VisitMapNameFirst(entries) ==
    IF ~AllStringValued(entries)
    THEN InvalidType(FirstNonString(entries).shape, "a string")
    ELSE IF ~HasKey(entries, "name") THEN MissingField("name")
    ELSE IF ~HasKey(entries, "type") THEN MissingField("type")
    ELSE DispatchOnType(entries)

\* ToolChoiceVisitor::visit_map
VisitMap(entries) ==
    IF ~AllStringValued(entries)
    THEN InvalidType(FirstNonString(entries).shape, "a string")
    ELSE IF ~HasKey(entries, "type") THEN MissingField("type")
    ELSE DispatchOnType(entries)

\* faulty variant of DeserializeToolChoice: null is read as the None choice
DeserializeToolChoiceNullable(d) ==
    CASE d.shape = "string" -> VisitStr(d.str)
      [] d.shape = "object" -> VisitMap(d.fields)
      [] d.shape = "null" -> DecodedOk(Unit("None"))
      [] OTHER -> InvalidType(d.shape, "string or struct")

\* impl Deserialize for ToolChoice: deserialize_any hands the visitor the
\* shape found; the visitor only accepts strings and maps
DeserializeToolChoice(d) ==
    CASE d.shape = "string" -> VisitStr(d.str)
      [] d.shape = "object" -> VisitMap(d.fields)
      [] OTHER -> InvalidType(d.shape, "string or struct")

(***************************************************************************)
(* Tool (types/tools.rs 9-50): an internally tagged enum, the tag in the   *)
(* field type, the variants' own fields beside it.                         *)
(***************************************************************************)
ToolVariants == {"Function", "FileSearch", "ComputerUse", "WebSearch"}

\* faulty variant of TagOfTool: rename_all alone, without the two renames
TagOfToolSnakeCase(variant) ==
    CASE variant = "Function" -> "function"
      [] variant = "FileSearch" -> "file_search"
      [] variant = "ComputerUse" -> "computer_use"
      [] variant = "WebSearch" -> "web_search"

\* rename_all = "snake_case" (line 10), rename (lines 34 and 44)
TagOfTool(variant) ==
    CASE variant = "Function" -> "function"
      [] variant = "FileSearch" -> "file_search"
      [] variant = "ComputerUse" -> "computer_use_preview"
      [] variant = "WebSearch" -> "web_search_preview"

ToolTags ==
    <<TagOfTool("Function"), TagOfTool("FileSearch"),
      TagOfTool("ComputerUse"), TagOfTool("WebSearch")>>

\* the fields each variant declares, in order, and those that are Options
FieldsOfTool(variant) ==
    CASE variant = "Function" -> <<"name", "parameters", "strict", "description">>
      [] variant = "FileSearch" ->
            <<"vector_store_ids", "filters", "max_num_results", "ranking_options">>
      [] variant = "ComputerUse" -> <<"display_height", "display_width", "environment">>
      [] variant = "WebSearch" -> <<"search_context_size", "user_location">>
OptionalToolFields == {"description", "user_location"}

\* a value of each field in wire form
ToolFieldSample(field) ==
    CASE field \in {"name", "environment", "search_context_size"} -> JStr("f")
      [] field \in {"display_height", "display_width", "max_num_results"} -> JNum("1")
      [] field = "strict" -> JBool(TRUE)
      [] field = "vector_store_ids" -> JArray
      [] field \in OptionalToolFields -> JNull
      [] OTHER -> JObj(<<>>)

RECURSIVE SampleEntries(_)
SampleEntries(fields) ==
    IF fields = <<>> THEN <<>>
    ELSE <<Entry(Head(fields), ToolFieldSample(Head(fields)))>> \o SampleEntries(Tail(fields))

ToolValue(variant, entries) == [variant |-> variant, fields |-> entries]
ToolValues == {ToolValue(v, SampleEntries(FieldsOfTool(v))) : v \in ToolVariants}

\* derive(Serialize), internally tagged: the tag first, then the fields
SerializeTool(v) == JObj(<<Entry("type", JStr(TagOfTool(v.variant)))>> \o v.fields)

\* the declared fields as the derived visitor reads them: a missing Option
\* is None, any other missing field is an error
RECURSIVE ReadFields(_, _)
ReadFields(entries, fields) ==
    IF fields = <<>> THEN <<>>
    ELSE LET f == Head(fields) IN
         <<Entry(f, IF HasKey(entries, f) THEN Lookup(entries, f) ELSE JNull)>>
         \o ReadFields(entries, Tail(fields))
MissingOf(entries, fields) ==
    SelectSeq(fields, LAMBDA f : ~HasKey(entries, f) /\ f \notin OptionalToolFields)

\* derive(Deserialize), internally tagged: the tag is looked up, then the
\* rest is read as the fields of the variant it names
DeserializeTool(d) ==
    IF d.shape # "object" THEN InvalidType(d.shape, "internally tagged enum Tool")
    ELSE IF ~HasKey(d.fields, "type") THEN MissingField("type")
    ELSE IF Lookup(d.fields, "type").shape # "string"
    THEN InvalidType(Lookup(d.fields, "type").shape, "variant identifier")
    ELSE IF \A v \in ToolVariants : TagOfTool(v) # Lookup(d.fields, "type").str
    THEN UnknownVariant(Lookup(d.fields, "type").str, ToolTags)
    ELSE LET variant == CHOOSE v \in ToolVariants :
                            TagOfTool(v) = Lookup(d.fields, "type").str
         IN IF MissingOf(d.fields, FieldsOfTool(variant)) # <<>>
            THEN MissingField(Head(MissingOf(d.fields, FieldsOfTool(variant))))
            ELSE DecodedOk(ToolValue(variant, ReadFields(d.fields, FieldsOfTool(variant))))

(***************************************************************************)
(* Model (types.rs 19-45): named identifiers plus the untagged catch-all   *)
(* Other(String), which serde tries after every named variant has failed.  *)
(***************************************************************************)
ModelVariants ==
    {<<"o1", "o1">>,
     <<"o1-mini", "o1Mini">>,
     <<"o1-pro", "o1Pro">>,
     <<"o3-mini", "o3Mini">>,
     <<"gpt-4.5-preview", "GPT4_5Preview">>,
     <<"gpt-4o", "GPT4o">>,
     <<"gpt-4o-mini", "GPT4oMini">>,
     <<"gpt-4o-turbo", "GPT4Turbo">>,
     <<"gpt-4", "GPT4">>,
     <<"gpt-3.5-turbo", "GPT3_5Turbo">>,
     <<"computer-use-preview", "ComputerUsePreview">>}
ModelIds == {p[1] : p \in ModelVariants}
ModelVariantOf(id) == (CHOOSE p \in ModelVariants : p[1] = id)[2]
ModelIdOf(variant) == (CHOOSE p \in ModelVariants : p[2] = variant)[1]

OtherStrings == {"my-fine-tune", "", "GPT-4O", "gpt-4o ", "other"}
ModelValues ==
    {Unit(p[2]) : p \in ModelVariants}
    \cup {Carrying("Other", t) : t \in OtherStrings \cup ModelIds}

\* derive(Serialize): a unit variant is its renamed identifier, the untagged
\* variant is its content
SerializeModel(v) ==
    IF v.variant = "Other" THEN JStr(v.name) ELSE JStr(ModelIdOf(v.variant))

\* faulty variant of DeserializeModel: a closed enum without the catch-all
DeserializeModelClosed(d) ==
    IF d.shape = "string" /\ d.str \in ModelIds
    THEN DecodedOk(Unit(ModelVariantOf(d.str)))
    ELSE IF d.shape = "string"
    THEN UnknownVariant(d.str, <<"named models">>)
    ELSE InvalidType(d.shape, "variant identifier")

\* derive(Deserialize): the named variants first, then Other(String)
DeserializeModel(d) ==
    IF d.shape = "string" /\ d.str \in ModelIds
    THEN DecodedOk(Unit(ModelVariantOf(d.str)))
    ELSE IF d.shape = "string"
    THEN DecodedOk(Carrying("Other", d.str))
    ELSE InvalidType(d.shape, "variant identifier")

(***************************************************************************)
(* Request (types/request.rs 11-68): derive(Serialize) writes every field  *)
(* of the struct in declaration order; an Option field goes through        *)
(* serialize_none or serialize_some.                                       *)
(***************************************************************************)
\* impl From<String> for Model (types/helpers.rs 48-64): the arms of the match
ModelFromArms ==
    {<<"o1", "o1">>,
     <<"gpt-4", "GPT4">>,
     <<"gpt-4o", "GPT4o">>,
     <<"o1-mini", "o1Mini">>,
     <<"o3-mini", "o3Mini">>,
     <<"gpt-4o-mini", "GPT4oMini">>,
     <<"gpt-4o-turbo", "GPT4Turbo">>,
     <<"gpt-3.5-turbo", "GPT3_5Turbo">>,
     <<"gpt-4.5-preview", "GPT4_5Preview">>,
     <<"computer-use-preview", "ComputerUsePreview">>}

\* Model::from(s): the arm that matches s, else Other(s)
ModelFrom(s) ==
    IF \E p \in ModelFromArms : p[1] = s
    THEN Unit((CHOOSE p \in ModelFromArms : p[1] = s)[2])
    ELSE Carrying("Other", s)

RequestFields ==
    <<"model", "input", "include", "instructions", "max_output_tokens",
      "metadata", "parallel_tool_calls", "previous_response_id", "reasoning",
      "service_tier", "store", "stream", "temperature", "text", "tool_choice",
      "tools", "top_p", "truncation", "user">>
RequiredFields == {"model", "input"}
OptionFields == {RequestFields[i] : i \in 1..Len(RequestFields)} \ RequiredFields

\* a set value of each field, already in wire form
SampleOf(field) ==
    CASE field = "model" -> SerializeModel(Unit("GPT4o"))
      [] field = "input" -> JStr("")
      [] field = "include" -> JArray
      [] field = "instructions" -> JStr("be brief")
      [] field = "max_output_tokens" -> JNum("64")
      [] field = "metadata" -> JObj(<<>>)
      [] field = "parallel_tool_calls" -> JBool(TRUE)
      [] field = "previous_response_id" -> JStr("resp_1")
      [] field = "reasoning" ->
            JObj(<<Entry("effort", JNull), Entry("generate_summary", JNull)>>)
      [] field = "service_tier" -> JStr("auto")
      [] field = "store" -> JBool(FALSE)
      [] field = "stream" -> JBool(TRUE)
      [] field = "temperature" -> JNum("0.5")
      [] field = "text" ->
            JObj(<<Entry("format", JObj(<<Entry("type", JStr("text"))>>))>>)
      [] field = "tool_choice" -> SerializeToolChoice(Unit("Auto"))
      [] field = "tools" -> JArray
      [] field = "top_p" -> JNum("0.1")
      [] field = "truncation" -> JStr("disabled")
      [] field = "user" -> JStr("u1")

MaxSetFields == 2
\* impl Default for Request with at most MaxSetFields options set afterwards
RequestWith(set) ==
    [f \in OptionFields \cup RequiredFields |->
        IF f \in RequiredFields THEN SampleOf(f)
        ELSE IF f \in set THEN Some(SampleOf(f)) ELSE None]
RequestValues ==
    {RequestWith(set) : set \in {t \in SUBSET OptionFields : Cardinality(t) <= MaxSetFields}}

\* Option<T>::serialize
SerializeOption(opt) == IF opt = None THEN JNull ELSE opt[1]

\* derive(Serialize) for Request: one entry per declared field
RECURSIVE SerializeFields(_, _)
SerializeFields(req, names) ==
    IF names = <<>> THEN <<>>
    ELSE LET f == Head(names) IN
         <<Entry(f, IF f \in RequiredFields THEN req[f] ELSE SerializeOption(req[f]))>>
         \o SerializeFields(req, Tail(names))

SerializeRequest(req) == JObj(SerializeFields(req, RequestFields))

(***************************************************************************)
(* ClientBuilder (lib.rs 74-143).  Header text is a sequence of bytes.     *)
(***************************************************************************)
Bearer == <<66, 101, 97, 114, 101, 114, 32>>
HeaderTexts == {<<115, 107>>, <<115, 10, 107>>, <<9>>, <<127>>}

\* HeaderValue::from_str accepts a byte that is a tab or is neither a
\* control character nor DEL
IsValidHeaderByte(b) == (b >= 32 /\ b # 127) \/ b = 9
IsValidHeaderValue(text) == \A i \in 1..Len(text) : IsValidHeaderByte(text[i])

NoBuilder == [api_key |-> None, organization |-> None, project |-> None]
NoBuilt == [outcome |-> "-", headers |-> <<>>]
BuildErr(e) == [outcome |-> e, headers |-> <<>>]
BuildOk(headers) == [outcome |-> "Ok", headers |-> headers]
Header(name, text) == [name |-> name, text |-> text]

\* faulty variant of OptionalHeader: an unset header is sent empty
OptionalHeaderAlways(name, opt) ==
    IF opt = None THEN <<Header(name, <<>>)>> ELSE <<Header(name, opt[1])>>

\* lines 125-137: an optional header is inserted only when it was set
OptionalHeader(name, opt) == IF opt = None THEN <<>> ELSE <<Header(name, opt[1])>>

DefaultHeaders(b) ==
    <<Header("authorization", Bearer \o b.api_key[1])>>
    \o OptionalHeader("openai-organization", b.organization)
    \o OptionalHeader("openai-project", b.project)

\* faulty variant of BuildResult: the project value is inserted unvalidated
BuildResultTrustingProject(b, httpOk) ==
    IF b.api_key = None THEN BuildErr("ApiKeyNotFound")
    ELSE IF ~IsValidHeaderValue(Bearer \o b.api_key[1]) THEN BuildErr("InvalidApiKey")
    ELSE IF b.organization # None /\ ~IsValidHeaderValue(b.organization[1])
    THEN BuildErr("InvalidApiKey")
    ELSE IF ~httpOk THEN BuildErr("CouldNotCreateClient")
    ELSE BuildOk(DefaultHeaders(b))

\* faulty variant of BuildResult: header values are validated before the key
\* is looked for
BuildResultValidatingFirst(b, httpOk) ==
    IF \/ (b.organization # None /\ ~IsValidHeaderValue(b.organization[1]))
       \/ (b.project # None /\ ~IsValidHeaderValue(b.project[1]))
    THEN BuildErr("InvalidApiKey")
    ELSE IF b.api_key = None THEN BuildErr("ApiKeyNotFound")
    ELSE IF ~IsValidHeaderValue(Bearer \o b.api_key[1]) THEN BuildErr("InvalidApiKey")
    ELSE IF ~httpOk THEN BuildErr("CouldNotCreateClient")
    ELSE BuildOk(DefaultHeaders(b))

\* ClientBuilder::build, top to bottom
BuildResult(b, httpOk) ==
    IF b.api_key = None THEN BuildErr("ApiKeyNotFound")
    ELSE IF ~IsValidHeaderValue(Bearer \o b.api_key[1]) THEN BuildErr("InvalidApiKey")
    ELSE IF b.organization # None /\ ~IsValidHeaderValue(b.organization[1])
    THEN BuildErr("InvalidApiKey")
    ELSE IF b.project # None /\ ~IsValidHeaderValue(b.project[1])
    THEN BuildErr("InvalidApiKey")
    ELSE IF ~httpOk THEN BuildErr("CouldNotCreateClient")
    ELSE BuildOk(DefaultHeaders(b))

(***************************************************************************)
(* Requests of a built Client: every entry point goes through self.client, *)
(* whose default headers reqwest adds to each request that does not set    *)
(* the same header itself.                                                 *)
(***************************************************************************)
NoSent == <<>>
ApplicationJson == <<97, 112, 112, 108, 105, 99, 97, 116, 105, 111, 110, 47, 106, 115, 111, 110>>
TextEventStream == <<116, 101, 120, 116, 47, 101, 118, 101, 110, 116, 45, 115, 116, 114, 101, 97, 109>>
EntryPoints == {"create", "create_raw", "stream", "get", "delete", "list_inputs"}

\* the headers the request builder of each entry point sets itself
OwnHeaders(entry) ==
    CASE entry \in {"create", "create_raw"} -> <<Header("content-type", ApplicationJson)>>
      [] entry = "stream" ->
            <<Header("content-type", ApplicationJson), Header("accept", TextEventStream)>>
      [] OTHER -> <<>>

HasHeader(headers, name) == \E i \in 1..Len(headers) : headers[i].name = name
HeaderText(headers, name) ==
    headers[CHOOSE i \in 1..Len(headers) : headers[i].name = name].text

RECURSIVE WithDefaults(_, _)
WithDefaults(own, defaults) ==
    IF defaults = <<>> THEN own
    ELSE LET h == Head(defaults) IN
         WithDefaults(IF HasHeader(own, h.name) THEN own ELSE Append(own, h),
                      Tail(defaults))

(***************************************************************************)
(* Concurrent stream calls on one Client (lib.rs 232-268): each call has   *)
(* its own event_source, generator and emitter, all locals of the call.    *)
(***************************************************************************)
SeqIds == {"a", "b"}
NotCalled ==
    [pc |-> "idle", slot |-> NoElement, demand |-> FALSE, yielded |-> <<>>,
     consumed |-> <<>>, ended |-> FALSE, dropped |-> FALSE, conn |-> "none",
     source |-> 0]

(***************************************************************************)
(* Entry points                                                            *)
(***************************************************************************)
\* faulty variant of SetStream: the flag is set only when the caller left it unset
SetStreamIfUnset(req, flag) ==
    IF req.stream = None THEN [req EXCEPT !.stream = Some(flag)] ELSE req

\* faulty variant of SetStream: the store field is reset along with stream
SetStreamClearingStore(req, flag) ==
    [f \in DOMAIN req |->
        IF f = "stream" THEN Some(flag)
        ELSE IF f = "store" THEN None
        ELSE req[f]]

\* request.stream = Some(flag)
SetStream(req, flag) == [req EXCEPT !.stream = Some(flag)]

Init ==
    /\ call = "none"
    /\ request = NoRequest
    /\ wire = NoRequest
    /\ path = "none"
    /\ reply = NoReply
    /\ result = NoResult
    /\ pc = "idle"
    /\ slot = NoElement
    /\ demand = FALSE
    /\ yielded = <<>>
    /\ consumed = <<>>
    /\ ended = FALSE
    /\ dropped = FALSE
    /\ conn = "none"
    /\ codec = "idle"
    /\ value = NoValue
    /\ document = NoDoc
    /\ decoded = NoDecoded
    /\ builder = NoBuilder
    /\ built = NoBuilt
    /\ onWire = NoSent
    /\ seqs = [i \in SeqIds |-> NotCalled]

\* Client::create up to the send
Create(req) ==
    /\ call = "none"
    /\ call' = "create"
    /\ request' = req
    /\ wire' = SetStream(req, FALSE)
    /\ path' = "buffered"
    /\ UNCHANGED <<codecVars, builderVars, pairVars>>
    /\ UNCHANGED <<reply, result, streamVars>>

\* Client::create_raw up to the send
CreateRaw(req) ==
    /\ call = "none"
    /\ call' = "create_raw"
    /\ request' = req
    /\ wire' = SetStream(req, FALSE)
    /\ path' = "buffered"
    /\ UNCHANGED <<codecVars, builderVars, pairVars>>
    /\ UNCHANGED <<reply, result, streamVars>>

\* Client::create from the reply (or the failed send) to its return
CreateReturn(sent, status, body) ==
    /\ call = "create"
    /\ result = NoResult
    /\ reply' = [sent |-> sent, status |-> status, body |-> body]
    /\ result' = CreateResult(sent, status, body)
    /\ UNCHANGED <<codecVars, builderVars, pairVars>>
    /\ UNCHANGED <<call, request, wire, path, streamVars>>

\* Client::create_raw from the reply (or the failed send) to its return
CreateRawReturn(sent, status, body) ==
    /\ call = "create_raw"
    /\ result = NoResult
    /\ reply' = [sent |-> sent, status |-> status, body |-> body]
    /\ result' = CreateRawResult(sent, status, body)
    /\ UNCHANGED <<codecVars, builderVars, pairVars>>
    /\ UNCHANGED <<call, request, wire, path, streamVars>>

\* Client::stream: builds the event source and returns the lazy sequence
Stream(req) ==
    /\ call = "none"
    /\ call' = "stream"
    /\ request' = req
    /\ wire' = SetStream(req, TRUE)
    /\ path' = "eventsource"
    /\ conn' = "live"
    /\ pc' = "next"
    /\ UNCHANGED <<codecVars, builderVars, pairVars>>
    /\ UNCHANGED <<reply, result, slot, demand, yielded, consumed, ended, dropped>>


(***************************************************************************)
(* The generator of Client::stream (lib.rs 243-265) and its consumer.      *)
(*   pc = "next"      suspended in event_source.next().await (line 244)    *)
(*   pc = "emit"      suspended in emitter.emit(event) (line 259)          *)
(*   pc = "emit_parsing"  suspended in emit_err(Parsing(..)) (line 260)    *)
(*   pc = "emit_stream"   suspended in emit_err(Stream(..)) (line 253)     *)
(*   pc = "done"      the async block has returned Ok(())                  *)
(* try_fn_stream polls the generator only from inside poll_next, and an    *)
(* emit hands its element to poll_next through the emitter's slot.         *)
(***************************************************************************)
\* faulty variant of Runnable: the generator runs ahead of the consumer
RunnableEager == ~dropped

\* the generator is polled only while the consumer is inside next()
Runnable == demand /\ ~dropped

\* faulty variant of IsStreamEnded: the expected end is not recognised
IsStreamEndedNever(e) == FALSE

\* matches!(error, reqwest_eventsource::Error::StreamEnded)
IsStreamEnded(e) == e = StreamEnded

\* faulty variant of AfterEmit: the generator returns after a parse failure
AfterEmitParsingReturns(at) == IF at = "emit_parsing" THEN "done" ELSE "next"

\* faulty variant of StreamErrorElement: a 400 status decoded as the service's error event
StreamErrorElementDecoded(e) ==
    IF e = "InvalidStatusCode(400)" THEN OkEvent("Error") ELSE ErrStream(e)

\* the element of a transport error: StreamError::Stream(error), line 253
StreamErrorElement(e) == ErrStream(e)

\* where the loop goes once a pending emit returns: the end of the loop body
\* (line 262) after lines 259 and 260, the continue of line 254 after line 253
AfterEmit(at) == "next"

\* the consumer asks for the next element
Pull ==
    /\ call = "stream"
    /\ ~demand /\ ~ended /\ ~dropped
    /\ demand' = TRUE
    /\ UNCHANGED <<codecVars, builderVars, pairVars>>
    /\ UNCHANGED <<facadeVars, pc, slot, yielded, consumed, ended, dropped, conn>>

\* faulty variant of RecvOpen: Open handled as a message with no data
RecvOpenAsMessage ==
    /\ call = "stream" /\ Runnable /\ pc = "next"
    /\ Len(consumed) < MaxScript
    /\ consumed' = Append(consumed, Open)
    /\ slot' = DecodeEvent("")
    /\ pc' = "emit_parsing"
    /\ UNCHANGED <<codecVars, builderVars, pairVars>>
    /\ UNCHANGED <<facadeVars, demand, yielded, ended, dropped, conn>>

\* line 246: Ok(Open) => continue
RecvOpen ==
    /\ call = "stream" /\ Runnable /\ pc = "next"
    /\ Len(consumed) < MaxScript
    /\ consumed' = Append(consumed, Open)
    /\ UNCHANGED <<codecVars, builderVars, pairVars>>
    /\ UNCHANGED <<facadeVars, pc, slot, demand, yielded, ended, dropped, conn>>

\* lines 247, 258-261: Ok(Message(message)) => decode, then emit or emit_err
RecvMessage(text) ==
    /\ call = "stream" /\ Runnable /\ pc = "next"
    /\ Len(consumed) < MaxScript
    /\ consumed' = Append(consumed, Message(text))
    /\ slot' = DecodeEvent(text)
    /\ pc' = (IF slot'.tag = "Ok" THEN "emit" ELSE "emit_parsing")
    /\ UNCHANGED <<codecVars, builderVars, pairVars>>
    /\ UNCHANGED <<facadeVars, demand, yielded, ended, dropped, conn>>

\* faulty variant of RecvError: the expected end is swallowed and the loop polls on
RecvErrorPollsOn(e) ==
    /\ call = "stream" /\ Runnable /\ pc = "next"
    /\ Len(consumed) < MaxScript
    /\ consumed' = Append(consumed, Error(e))
    /\ IF IsStreamEnded(e)
       THEN /\ pc' = "next"
            /\ slot' = slot
       ELSE /\ pc' = "emit_stream"
            /\ slot' = StreamErrorElement(e)
    /\ UNCHANGED <<codecVars, builderVars, pairVars>>
    /\ UNCHANGED <<facadeVars, demand, yielded, ended, dropped, conn>>

\* lines 248-255: Err(error) => break on StreamEnded, else emit_err and continue
RecvError(e) ==
    /\ call = "stream" /\ Runnable /\ pc = "next"
    /\ Len(consumed) < MaxScript
    /\ consumed' = Append(consumed, Error(e))
    /\ IF IsStreamEnded(e)
       THEN /\ pc' = "done"
            /\ conn' = "released"
            /\ slot' = slot
       ELSE /\ pc' = "emit_stream"
            /\ slot' = StreamErrorElement(e)
            /\ conn' = conn
    /\ UNCHANGED <<codecVars, builderVars, pairVars>>
    /\ UNCHANGED <<facadeVars, demand, yielded, ended, dropped>>

\* line 244: next() gave None, the while-let loop is over; line 264
RecvClosed ==
    /\ call = "stream" /\ Runnable /\ pc = "next"
    /\ Len(consumed) < MaxScript
    /\ consumed' = Append(consumed, Closed)
    /\ pc' = "done"
    /\ conn' = "released"
    /\ UNCHANGED <<codecVars, builderVars, pairVars>>
    /\ UNCHANGED <<facadeVars, slot, demand, yielded, ended, dropped>>

\* poll_next finds the emitted element and returns Ready(Some(element))
Deliver ==
    /\ call = "stream" /\ demand /\ ~dropped
    /\ slot # NoElement
    /\ yielded' = Append(yielded, slot)
    /\ slot' = NoElement
    /\ demand' = FALSE
    /\ UNCHANGED <<codecVars, builderVars, pairVars>>
    /\ UNCHANGED <<facadeVars, pc, consumed, ended, dropped, conn>>

\* the next poll completes the pending emit and the loop goes on
Resume ==
    /\ call = "stream" /\ Runnable
    /\ pc \in {"emit", "emit_parsing", "emit_stream"}
    /\ slot = NoElement
    /\ pc' = AfterEmit(pc)
    /\ conn' = (IF pc' = "done" THEN "released" ELSE conn)
    /\ UNCHANGED <<codecVars, builderVars, pairVars>>
    /\ UNCHANGED <<facadeVars, slot, demand, yielded, consumed, ended, dropped>>

\* faulty variant of Finish: the returned generator is reported as pending
FinishStaysPending ==
    /\ call = "stream" /\ demand /\ ~dropped
    /\ pc = "done" /\ slot = NoElement
    /\ demand' = FALSE
    /\ UNCHANGED <<codecVars, builderVars, pairVars>>
    /\ UNCHANGED <<facadeVars, pc, slot, yielded, consumed, ended, dropped, conn>>

\* the generator has returned: poll_next returns Ready(None)
Finish ==
    /\ call = "stream" /\ demand /\ ~dropped
    /\ pc = "done" /\ slot = NoElement
    /\ ended' = TRUE
    /\ demand' = FALSE
    /\ UNCHANGED <<codecVars, builderVars, pairVars>>
    /\ UNCHANGED <<facadeVars, pc, slot, yielded, consumed, dropped, conn>>

\* the consumer drops the sequence, and with it the generator and event source
Drop ==
    /\ call = "stream" /\ ~dropped
    /\ slot = NoElement
    /\ dropped' = TRUE
    /\ demand' = FALSE
    /\ conn' = "released"
    /\ UNCHANGED <<codecVars, builderVars, pairVars>>
    /\ UNCHANGED <<facadeVars, pc, slot, yielded, consumed, ended>>

Next ==
    \/ \E req \in Requests : Create(req)
    \/ \E req \in Requests : CreateRaw(req)
    \/ \E req \in Requests : Stream(req)
    \/ \E sent \in BOOLEAN, status \in Statuses, body \in Bodies :
          CreateReturn(sent, status, body)
    \/ \E sent \in BOOLEAN, status \in Statuses, body \in Bodies :
          CreateRawReturn(sent, status, body)
    \/ Pull
    \/ RecvOpen
    \/ \E text \in Payloads : RecvMessage(text)
    \/ \E e \in ErrorKinds : RecvError(e)
    \/ RecvClosed
    \/ Deliver
    \/ Resume
    \/ Finish
    \/ Drop

Spec == Init /\ [][Next]_vars

\* a consumer that keeps pulling, and a generator that runs whenever it is
\* polled; the transport is under no obligation to deliver anything
MaxLiveScript == 3
\* the calls and steps of the streaming path, on scripts up to MaxLiveScript
LiveNext ==
    \/ \E req \in Requests : Stream(req)
    \/ Pull
    \/ Len(consumed) < MaxLiveScript /\ RecvOpen
    \/ Len(consumed) < MaxLiveScript /\ \E text \in Payloads : RecvMessage(text)
    \/ Len(consumed) < MaxLiveScript /\ \E e \in ErrorKinds : RecvError(e)
    \/ Len(consumed) < MaxLiveScript /\ RecvClosed
    \/ Deliver
    \/ Resume
    \/ Finish
    \/ Drop

LiveSpec ==
    /\ Init /\ [][LiveNext]_vars
    /\ WF_vars(Pull)
    /\ WF_vars(Deliver)
    /\ WF_vars(Resume)
    /\ WF_vars(Finish)

(***************************************************************************)
(* Codec steps: one value or one wire document goes through one codec.     *)
(***************************************************************************)
MaxFields == 3
DocKeys == {"type", "name", "strict"}
DocStrings ==
    {"file_search", "web_search_preview", "computer_use_preview", "function",
     "bogus", "f"}
ScalarDocs == {JStr(t) : t \in DocStrings \cup {"none", "auto", "required"}}
              \cup {JNum("1"), JBool(TRUE), JNull, JArray}
EntryValues == {JStr(t) : t \in DocStrings} \cup {JNum("1")}
Entries == {Entry(k, v) : k \in DocKeys, v \in EntryValues}
EntryLists(n) == [1..n -> Entries]
TagStrings ==
    {"function", "file_search", "computer_use_preview", "web_search_preview",
     "computer-use-preview", "web-search-preview", "computer_use", "bogus"}
ToolDocs ==
    {JObj(<<Entry("type", JStr(t))>> \o SampleEntries(FieldsOfTool(v))) :
        t \in TagStrings, v \in ToolVariants}
    \cup {JObj(SampleEntries(FieldsOfTool(v))) : v \in ToolVariants}
    \cup {JObj(SampleEntries(FieldsOfTool(v)) \o <<Entry("type", JStr(TagOfTool(v)))>>) :
            v \in ToolVariants}
    \cup {JStr("function"), JNull}
ModelDocs == {JStr(t) : t \in ModelIds \cup OtherStrings} \cup {JNum("1"), JNull}

CodecFrame == UNCHANGED <<facadeVars, streamVars, builderVars, pairVars>>

ToolChoiceSerialize ==
    /\ codec = "idle"
    /\ \E v \in ToolChoices :
        /\ value' = v
        /\ document' = SerializeToolChoice(v)
    /\ codec' = "ToolChoice.serialize"
    /\ UNCHANGED decoded
    /\ CodecFrame

ToolChoiceReadBack ==
    /\ codec = "ToolChoice.serialize"
    /\ codec' = "ToolChoice.roundtrip"
    /\ decoded' = DeserializeToolChoice(document)
    /\ UNCHANGED <<value, document>>
    /\ CodecFrame

ToolChoiceDeserialize ==
    /\ codec = "idle"
    /\ \E d \in ScalarDocs \cup {NoDoc}, n \in 0..MaxFields :
        \E es \in IF d = NoDoc THEN EntryLists(n) ELSE {<<>>} :
            /\ document' = (IF d = NoDoc THEN JObj(es) ELSE d)
            /\ decoded' = DeserializeToolChoice(document')
    /\ codec' = "ToolChoice.deserialize"
    /\ UNCHANGED value
    /\ CodecFrame

ModelSerialize ==
    /\ codec = "idle"
    /\ \E v \in ModelValues :
        /\ value' = v
        /\ document' = SerializeModel(v)
    /\ codec' = "Model.serialize"
    /\ UNCHANGED decoded
    /\ CodecFrame

ModelDeserialize ==
    /\ codec = "idle"
    /\ \E d \in ModelDocs :
        /\ document' = d
        /\ decoded' = DeserializeModel(d)
    /\ codec' = "Model.deserialize"
    /\ UNCHANGED value
    /\ CodecFrame

RequestSerialize ==
    /\ codec = "idle"
    /\ \E req \in RequestValues :
        /\ value' = req
        /\ document' = SerializeRequest(req)
    /\ codec' = "Request.serialize"
    /\ UNCHANGED decoded
    /\ CodecFrame

ToolSerialize ==
    /\ codec = "idle"
    /\ \E v \in ToolValues :
        /\ value' = v
        /\ document' = SerializeTool(v)
    /\ codec' = "Tool.serialize"
    /\ UNCHANGED decoded
    /\ CodecFrame

ToolDeserialize ==
    /\ codec = "idle"
    /\ \E d \in ToolDocs :
        /\ document' = d
        /\ decoded' = DeserializeTool(d)
    /\ codec' = "Tool.deserialize"
    /\ UNCHANGED value
    /\ CodecFrame

\* Client::create (lib.rs 209-214): the body handed to the transport
CreateBody ==
    /\ codec = "idle"
    /\ \E req \in RequestValues :
        /\ value' = req
        /\ document' = SerializeRequest(SetStream(req, JBool(FALSE)))
    /\ codec' = "Client.create"
    /\ UNCHANGED decoded
    /\ CodecFrame

\* Client::stream (lib.rs 234-239): the body handed to the transport
StreamBody ==
    /\ codec = "idle"
    /\ \E req \in RequestValues :
        /\ value' = req
        /\ document' = SerializeRequest(SetStream(req, JBool(TRUE)))
    /\ codec' = "Client.stream"
    /\ UNCHANGED decoded
    /\ CodecFrame

\* Model::from(s) beside the decoding of the wire string s
ModelFromString ==
    /\ codec = "idle"
    /\ \E t \in ModelIds \cup OtherStrings :
        /\ value' = ModelFrom(t)
        /\ document' = JStr(t)
        /\ decoded' = DeserializeModel(JStr(t))
    /\ codec' = "Model.from"
    /\ CodecFrame

CodecNext ==
    \/ CreateBody
    \/ StreamBody
    \/ ModelFromString
    \/ ToolSerialize
    \/ ToolDeserialize
    \/ ToolChoiceSerialize
    \/ ToolChoiceReadBack
    \/ ToolChoiceDeserialize
    \/ ModelSerialize
    \/ ModelDeserialize
    \/ RequestSerialize

CodecSpec == Init /\ [][CodecNext]_vars

(***************************************************************************)
(* Builder steps: the fluent setters in any order, then build.             *)
(***************************************************************************)
BuilderFrame == UNCHANGED <<facadeVars, streamVars, codecVars, pairVars>>

ApiKey(text) ==
    /\ built = NoBuilt
    /\ builder' = [builder EXCEPT !.api_key = Some(text)]
    /\ UNCHANGED <<built, onWire>>
    /\ BuilderFrame

Organization(text) ==
    /\ built = NoBuilt
    /\ builder' = [builder EXCEPT !.organization = Some(text)]
    /\ UNCHANGED <<built, onWire>>
    /\ BuilderFrame

Project(text) ==
    /\ built = NoBuilt
    /\ builder' = [builder EXCEPT !.project = Some(text)]
    /\ UNCHANGED <<built, onWire>>
    /\ BuilderFrame

Build(httpOk) ==
    /\ built = NoBuilt
    /\ built' = BuildResult(builder, httpOk)
    /\ UNCHANGED <<builder, onWire>>
    /\ BuilderFrame

Send(entry) ==
    /\ built.outcome = "Ok"
    /\ onWire' = WithDefaults(OwnHeaders(entry), built.headers)
    /\ UNCHANGED <<builder, built>>
    /\ BuilderFrame

BuilderNext ==
    \/ \E entry \in EntryPoints : Send(entry)
    \/ \E text \in HeaderTexts : ApiKey(text)
    \/ \E text \in HeaderTexts : Organization(text)
    \/ \E text \in HeaderTexts : Project(text)
    \/ \E httpOk \in BOOLEAN : Build(httpOk)

BuilderSpec == Init /\ [][BuilderNext]_vars

(***************************************************************************)
(* Steps of concurrent stream calls, interleaved in any order.  Each step  *)
(* is the step of the single call above, on the state of one sequence.     *)
(***************************************************************************)
MaxPairScript == 2
PairNotifications ==
    {Open, Message(PayloadCreated), Message(PayloadNotJson),
     Error(StreamEnded), Error("Transport")}

PairFrame == UNCHANGED <<facadeVars, streamVars, codecVars, builderVars>>

\* event sources made so far by .eventsource()
SourcesMade == Cardinality({j \in SeqIds : seqs[j].source # 0})

\* faulty variant of OnNotification: a payload that fails to decode is
\* reported as a transport error
OnNotificationParsingAsStream(st, n) ==
    LET taken == [st EXCEPT !.consumed = Append(@, n)] IN
    CASE n.kind = "Open" -> taken
      [] n.kind = "Message" ->
            IF DecodeEvent(n.data).tag = "Ok"
            THEN [taken EXCEPT !.slot = DecodeEvent(n.data), !.pc = "emit"]
            ELSE [taken EXCEPT !.slot = ErrStream("Parsing"), !.pc = "emit_stream"]
      [] n.kind = "Error" ->
            IF IsStreamEnded(n.data)
            THEN [taken EXCEPT !.pc = "done", !.conn = "released"]
            ELSE [taken EXCEPT !.pc = "emit_stream",
                               !.slot = StreamErrorElement(n.data)]
      [] OTHER -> [taken EXCEPT !.pc = "done", !.conn = "released"]

\* lines 244-262 on one notification
OnNotification(st, n) ==
    LET taken == [st EXCEPT !.consumed = Append(@, n)] IN
    CASE n.kind = "Open" -> taken
      [] n.kind = "Message" ->
            [taken EXCEPT !.slot = DecodeEvent(n.data),
                          !.pc = IF DecodeEvent(n.data).tag = "Ok"
                                 THEN "emit" ELSE "emit_parsing"]
      [] n.kind = "Error" ->
            IF IsStreamEnded(n.data)
            THEN [taken EXCEPT !.pc = "done", !.conn = "released"]
            ELSE [taken EXCEPT !.pc = "emit_stream",
                               !.slot = StreamErrorElement(n.data)]
      [] OTHER -> [taken EXCEPT !.pc = "done", !.conn = "released"]

\* faulty variant of PendingFor: one emitter slot serves every sequence
PendingForAny(i) ==
    IF seqs[i].slot # NoElement THEN seqs[i].slot
    ELSE IF \E j \in SeqIds : seqs[j].slot # NoElement
    THEN seqs[CHOOSE j \in SeqIds : seqs[j].slot # NoElement].slot
    ELSE NoElement

\* poll_next of a sequence reads the slot of its own emitter
PendingFor(i) == seqs[i].slot

SeqStream(i) ==
    /\ seqs[i].pc = "idle"
    /\ seqs' = [seqs EXCEPT ![i].pc = "next", ![i].conn = "live",
                            ![i].source = SourcesMade + 1]
    /\ PairFrame

SeqPull(i) ==
    /\ seqs[i].pc # "idle"
    /\ ~seqs[i].demand /\ ~seqs[i].ended /\ ~seqs[i].dropped
    /\ seqs' = [seqs EXCEPT ![i].demand = TRUE]
    /\ PairFrame

SeqRecv(i, n) ==
    /\ seqs[i].demand /\ ~seqs[i].dropped /\ seqs[i].pc = "next"
    /\ Len(seqs[i].consumed) < MaxPairScript
    /\ seqs' = [seqs EXCEPT ![i] = OnNotification(@, n)]
    /\ PairFrame

SeqDeliver(i) ==
    /\ seqs[i].demand /\ ~seqs[i].dropped
    /\ PendingFor(i) # NoElement
    /\ seqs' = [seqs EXCEPT ![i].yielded = Append(@, PendingFor(i)),
                            ![i].slot = NoElement,
                            ![i].demand = FALSE]
    /\ PairFrame

SeqResume(i) ==
    /\ seqs[i].demand /\ ~seqs[i].dropped
    /\ seqs[i].pc \in {"emit", "emit_parsing", "emit_stream"}
    /\ seqs[i].slot = NoElement
    /\ seqs' = [seqs EXCEPT ![i].pc = AfterEmit(@),
                            ![i].conn = IF AfterEmit(seqs[i].pc) = "done"
                                        THEN "released" ELSE @]
    /\ PairFrame

SeqFinish(i) ==
    /\ seqs[i].demand /\ ~seqs[i].dropped
    /\ seqs[i].pc = "done" /\ seqs[i].slot = NoElement
    /\ seqs' = [seqs EXCEPT ![i].ended = TRUE, ![i].demand = FALSE]
    /\ PairFrame

SeqDrop(i) ==
    /\ seqs[i].pc # "idle" /\ ~seqs[i].dropped
    /\ seqs[i].slot = NoElement
    /\ seqs' = [seqs EXCEPT ![i].dropped = TRUE, ![i].demand = FALSE,
                            ![i].conn = "released"]
    /\ PairFrame

PairNext ==
    \/ \E i \in SeqIds : SeqStream(i)
    \/ \E i \in SeqIds : SeqPull(i)
    \/ \E i \in SeqIds, n \in PairNotifications : SeqRecv(i, n)
    \/ \E i \in SeqIds : SeqDeliver(i)
    \/ \E i \in SeqIds : SeqResume(i)
    \/ \E i \in SeqIds : SeqFinish(i)
    \/ \E i \in SeqIds : SeqDrop(i)

PairSpec == Init /\ [][PairNext]_vars


(***************************************************************************)
(* Vocabulary of the properties                                            *)
(***************************************************************************)
\* every element the generator has emitted: those received plus the one in the slot
Handed == IF slot = NoElement THEN yielded ELSE Append(yielded, slot)

IsMessage(n) == n.kind = "Message"
IsFatal(n) == n.kind = "Error" /\ n.data # StreamEnded
IsExpectedEnd(n) == n.kind = "Error" /\ n.data = StreamEnded
NotOpen(n) == n.kind # "Open"

\* the payload is a JSON object, tagged with a discriminant of Event, and
\* carries the fields of that variant
WellFormed(text) ==
    /\ ParseJson(text).json
    /\ ParseJson(text).type \in EventTags
    /\ ParseJson(text).fields
IsValidMessage(n) == IsMessage(n) /\ WellFormed(n.data)
IsMalformedMessage(n) == IsMessage(n) /\ ~WellFormed(n.data)

\* notifications that the contract turns into one element each
BearsElement(n) == IsMessage(n) \/ IsFatal(n)
ElemCount(s) == Len(SelectSeq(s, BearsElement))
\* position in the sequence of the element of the k-th notification
ElemIndex(k) == ElemCount(SubSeq(consumed, 1, k))

\* the variant each well-formed payload of the model denotes
ExpectedEvent(text) ==
    CASE text = PayloadCreated -> OkEvent("ResponseCreated")
      [] text = PayloadDelta -> OkEvent("OutputTextDelta")
      [] OTHER -> NoElement

\* open, then valid message frames only, then the expected end
CleanScript(s) ==
    /\ Len(s) >= 2
    /\ s[1] = Open
    /\ s[Len(s)] = Error(StreamEnded)
    /\ \A i \in 2..(Len(s) - 1) : IsValidMessage(s[i])

(***************************************************************************)
(* C1: a fatal transport error is terminal: Err(Stream) occurs in the      *)
(* sequence at most once and only as its last element: nothing is yielded  *)
(* after it, whatever the transport delivers afterwards.                   *)
(***************************************************************************)
C1_FatalErrorIsTerminal ==
    \A i \in 1..Len(yielded) : yielded[i].tag = "Stream" => i = Len(yielded)

(***************************************************************************)
(* C2: on a clean stream (open, n valid message frames, expected end) the  *)
(* sequence is exactly the n decoded events in arrival order, the          *)
(* generator has returned and no error element trails.                     *)
(***************************************************************************)
C2_CleanStreamInOrder ==
    CleanScript(consumed) =>
        /\ pc = "done"
        /\ slot = NoElement
        /\ Len(yielded) = Len(consumed) - 2
        /\ \A i \in 1..Len(yielded) : yielded[i] = ExpectedEvent(consumed[i + 1].data)

C2_Witness ==
    /\ consumed = <<Open, Message(PayloadDelta), Message(PayloadCreated),
                    Error(StreamEnded)>>
    /\ yielded = <<OkEvent("OutputTextDelta"), OkEvent("ResponseCreated")>>
    /\ ended

(***************************************************************************)
(* C3: a malformed message frame is not fatal: it yields Err(Parsing), the *)
(* generator keeps pumping, and every later valid frame yields Ok(Event);  *)
(* valid, malformed, valid yields exactly [Ok, Err(Parsing), Ok].          *)
(***************************************************************************)
C3_MalformedIsNotFatal ==
    /\ \A i \in 1..Len(consumed) :
          IsMalformedMessage(consumed[i]) =>
              /\ Len(Handed) >= ElemIndex(i)
              /\ Handed[ElemIndex(i)].tag = "Parsing"
              /\ (i = Len(consumed) => pc \in {"emit_parsing", "next"})
              /\ \A j \in (i + 1)..Len(consumed) :
                    IsValidMessage(consumed[j]) =>
                        /\ Len(Handed) >= ElemIndex(j)
                        /\ Handed[ElemIndex(j)] = ExpectedEvent(consumed[j].data)
    /\ (/\ Len(consumed) = 3
        /\ IsValidMessage(consumed[1])
        /\ IsMalformedMessage(consumed[2])
        /\ IsValidMessage(consumed[3]))
       => /\ Len(Handed) = 3
          /\ Handed[1].tag = "Ok" /\ Handed[2].tag = "Parsing" /\ Handed[3].tag = "Ok"

C3_Witness ==
    /\ consumed = <<Message(PayloadCreated), Message(PayloadNotJson),
                    Message(PayloadDelta)>>
    /\ yielded = <<OkEvent("ResponseCreated"), ErrParsing("syntax"),
                   OkEvent("OutputTextDelta")>>

(***************************************************************************)
(* C4: the expected end of the stream is a normal end: after any prefix,   *)
(* the StreamEnded error yields no element, is the last notification       *)
(* taken, and leaves the generator returned with its event source released.*)
(***************************************************************************)
C4_ExpectedEndIsSilent ==
    /\ \A k \in 1..Len(consumed) :
          IsExpectedEnd(consumed[k]) =>
              /\ k = Len(consumed)
              /\ pc = "done"
              /\ slot = NoElement
              /\ Len(yielded) = ElemCount(consumed)
              /\ conn = "released"
    /\ \A i \in 1..Len(Handed) : Handed[i] # ErrStream(StreamEnded)

C4_Witness ==
    /\ Len(consumed) = 3
    /\ IsMessage(consumed[1])
    /\ IsFatal(consumed[2])
    /\ IsExpectedEnd(consumed[3])
    /\ Len(yielded) = 2
    /\ ended

(***************************************************************************)
(* C5: the stream flag on the wire matches the path taken: false on the    *)
(* buffered path of create and create_raw, true on the event-source path   *)
(* of stream, whatever the caller had set.                                 *)
(***************************************************************************)
C5_FlagMatchesPath ==
    /\ call \in {"create", "create_raw"} =>
          wire.stream = Some(FALSE) /\ path = "buffered"
    /\ call = "stream" => wire.stream = Some(TRUE) /\ path = "eventsource"
    /\ (wire.stream = Some(TRUE)) <=> (path = "eventsource")

C5_Witness ==
    /\ call = "stream"
    /\ request.stream = Some(FALSE)
    /\ wire.stream = Some(TRUE)


IsSuccessStatus(status) == status >= 200 /\ status <= 299

(***************************************************************************)
(* C6: status policy of create: a 400 reply with a service-error body      *)
(* returns Ok(Err(Error)); a reply with any other status outside 200-299   *)
(* returns the outer Err of the status check, the body left undecoded.     *)
(***************************************************************************)
C6_BufferedStatusPolicy ==
    (call = "create" /\ result # NoResult /\ reply.sent) =>
        /\ (reply.status = BAD_REQUEST /\ reply.body = BodyError) => result = OkErr
        /\ (reply.status # BAD_REQUEST /\ ~IsSuccessStatus(reply.status)) =>
              result = ReqwestErr("Status")

(***************************************************************************)
(* C7: stream has no bad-request special case: when the stream cannot be   *)
(* established (the first notification is a failure, a 400 status          *)
(* included), the first element of the sequence is Err(Stream) of that     *)
(* failure; no Ok(Event) precedes it and it is not decoded into an event.  *)
(***************************************************************************)
C7_EstablishFailureIsFirstElement ==
    (Len(consumed) >= 1 /\ IsFatal(consumed[1])) =>
        /\ Len(Handed) >= 1
        /\ Handed[1] = ErrStream(consumed[1].data)

C7_Witness ==
    /\ Len(consumed) = 1
    /\ consumed[1] = Error("InvalidStatusCode(400)")
    /\ yielded = <<ErrStream("InvalidStatusCode(400)")>>
    /\ result = NoResult

TakesOpen == consumed' = Append(consumed, Open)

(***************************************************************************)
(* C8: an Open notification never surfaces: taking one, at any position,   *)
(* emits nothing and delivers nothing, so the elements never outnumber     *)
(* the notifications other than Open.                                      *)
(***************************************************************************)
C8_OpenNeverSurfaces ==
    /\ [][TakesOpen => (slot' = slot /\ yielded' = yielded /\ pc' = pc)]_vars
    /\ [](Len(Handed) <= Len(SelectSeq(consumed, NotOpen)))

C8_Witness ==
    /\ Len(consumed) = 3
    /\ consumed[1] = Open
    /\ IsMessage(consumed[2])
    /\ consumed[3] = Open
    /\ Len(yielded) = 1
    /\ pc = "next"

NotStreamError(el) == el.tag # "Stream"
MessagesTaken == SelectSeq(consumed, IsMessage)
MessageElements == SelectSeq(Handed, NotStreamError)

(***************************************************************************)
(* C9: one message, one element: the elements other than Err(Stream) are,  *)
(* in order, one per message taken: Ok(Event) when the payload is a JSON   *)
(* object tagged with a discriminant of Event and carrying that variant's  *)
(* fields, Err(Parsing) otherwise (an unknown tag included).               *)
(***************************************************************************)
C9_OneMessageOneElement ==
    /\ Len(MessageElements) = Len(MessagesTaken)
    /\ \A k \in 1..Len(MessagesTaken) :
          IF WellFormed(MessagesTaken[k].data)
          THEN MessageElements[k] = ExpectedEvent(MessagesTaken[k].data)
          ELSE MessageElements[k].tag = "Parsing"

C9_Witness ==
    /\ consumed = <<Message(PayloadUnknownTag), Message(PayloadDelta),
                    Message(PayloadMissingField), Message(PayloadNoType)>>
    /\ Len(yielded) = 4
    /\ yielded[1].tag = "Parsing"
    /\ yielded[2] = OkEvent("OutputTextDelta")

TakesNotification == consumed' # consumed

(***************************************************************************)
(* C10: backpressure: the generator takes a notification from the          *)
(* transport only while the consumer is waiting for an element and every   *)
(* element emitted so far has been received, so at most one element is     *)
(* ever emitted and not yet received.                                      *)
(***************************************************************************)
C10_Backpressure ==
    /\ [][TakesNotification =>
            (demand /\ slot = NoElement /\ Len(yielded) = ElemCount(consumed))]_vars
    /\ [](ElemCount(consumed) - Len(yielded) <= 1)
    /\ [](slot # NoElement => demand)

C10_Witness ==
    /\ Len(consumed) = 3
    /\ \A k \in 1..3 : IsMessage(consumed[k])
    /\ Len(yielded) = 2
    /\ slot # NoElement

FatalErrorPassed ==
    \E i \in 1..Len(yielded) :
        /\ yielded[i].tag = "Stream"
        /\ (i < Len(yielded) \/ pc # "emit_stream")

(***************************************************************************)
(* C11: the transport connection is released on every exit path: once the  *)
(* consumer has dropped the sequence the connection is released and the    *)
(* generator can ask the transport for nothing more; the connection is     *)
(* also released once the sequence has ended normally, and once a fatal    *)
(* error has been handed over and the generator has run on past it.        *)
(***************************************************************************)
C11_TransportReleasedOnEveryExit ==
    /\ dropped => (conn = "released" /\ ~Runnable)
    /\ ended => conn = "released"
    /\ FatalErrorPassed => conn = "released"

(***************************************************************************)
(* C12: ToolChoice round trip: decoding the encoding of any ToolChoice     *)
(* value gives that value back.                                            *)
(***************************************************************************)
C12_ToolChoiceRoundTrip ==
    codec = "ToolChoice.roundtrip" => decoded = DecodedOk(value)

C12_Witness ==
    /\ codec = "ToolChoice.roundtrip"
    /\ value = Carrying("Function", "f")
    /\ document = JObj(<<Entry("name", JStr("f")), Entry("type", JStr("function"))>>)
    /\ decoded = DecodedOk(Carrying("Function", "f"))

DecodedObject == codec = "ToolChoice.deserialize" /\ document.shape = "object"
TypeOf(d) == Lookup(d.fields, "type")
AcceptedTags == {"file_search", "web_search_preview", "computer_use_preview", "function"}
HasUnknownType(d) ==
    HasKey(d.fields, "type") /\ ~(TypeOf(d).shape = "string" /\ TypeOf(d).str \in AcceptedTags)
FourTags == <<"file_search", "web_search_preview", "computer_use_preview", "function">>

(***************************************************************************)
(* C13 as stated: decoding any object whose type is none of the four       *)
(* accepted tags fails with unknown variant, naming the tag and the four   *)
(* accepted tags, with or without a name field.                            *)
(***************************************************************************)
C13_UnknownTypeIsUnknownVariant ==
    (DecodedObject /\ HasUnknownType(document))
        => decoded = UnknownVariant(TypeOf(document).str, FourTags)

(***************************************************************************)
(* C13 amended: the same for an object all of whose fields are strings; an *)
(* object with a field that is not a string fails with invalid type, and   *)
(* in neither case is a ToolChoice value produced.                         *)
(***************************************************************************)
C13_UnknownTypeAmongStrings ==
    (DecodedObject /\ HasUnknownType(document))
        => /\ ~decoded.ok
           /\ decoded.v = NoValue
           /\ IF AllStringValued(document.fields)
              THEN decoded = UnknownVariant(TypeOf(document).str, FourTags)
              ELSE decoded.err.kind = "invalid type"

C13_Witness ==
    /\ DecodedObject
    /\ document = JObj(<<Entry("type", JStr("bogus")), Entry("name", JStr("f"))>>)
    /\ decoded.err.kind = "unknown variant"
    /\ decoded.err.what = "bogus"

FunctionWithoutName(d) ==
    /\ TypeOf(d) = JStr("function")
    /\ ~HasKey(d.fields, "name")

(***************************************************************************)
(* C14 as stated: decoding any object tagged function that has no name     *)
(* field fails with missing field name.                                    *)
(***************************************************************************)
C14_FunctionWithoutNameIsMissingField ==
    (DecodedObject /\ FunctionWithoutName(document)) => decoded = MissingField("name")

(***************************************************************************)
(* C14 amended: the same for an object all of whose fields are strings; an *)
(* object with a field that is not a string fails with invalid type, and   *)
(* in neither case is a ToolChoice value produced.                         *)
(***************************************************************************)
C14_FunctionWithoutNameAmongStrings ==
    (DecodedObject /\ FunctionWithoutName(document))
        => /\ ~decoded.ok
           /\ decoded.v = NoValue
           /\ IF AllStringValued(document.fields)
              THEN decoded = MissingField("name")
              ELSE decoded.err.kind = "invalid type"

C14_Witness ==
    /\ DecodedObject
    /\ document = JObj(<<Entry("strict", JStr("f")), Entry("type", JStr("function"))>>)
    /\ decoded = MissingField("name")

(***************************************************************************)
(* C15: decoding an object with no type field, all of whose fields are     *)
(* strings, fails with missing field type, whether or not it has a name:   *)
(* the type is required before anything is dispatched.                     *)
(***************************************************************************)
C15_MissingTypeComesFirst ==
    (DecodedObject /\ ~HasKey(document.fields, "type") /\ AllStringValued(document.fields))
        => decoded = MissingField("type")

C15_Witness ==
    /\ DecodedObject
    /\ document = JObj(<<Entry("name", JStr("f")), Entry("strict", JStr("function"))>>)
    /\ decoded = MissingField("type")

(***************************************************************************)
(* C16: of the documents that are not objects, exactly the strings none,   *)
(* auto and required decode (to None, Auto, Required); any other string    *)
(* fails with unknown variant listing these three, and a number, array,    *)
(* boolean or null fails with invalid type.                                *)
(***************************************************************************)
C16_BareStringsOnly ==
    (codec = "ToolChoice.deserialize" /\ document.shape # "object")
        => CASE document = JStr("none") -> decoded = DecodedOk(Unit("None"))
             [] document = JStr("auto") -> decoded = DecodedOk(Unit("Auto"))
             [] document = JStr("required") -> decoded = DecodedOk(Unit("Required"))
             [] OTHER ->
                  IF document.shape = "string"
                  THEN decoded = UnknownVariant(document.str, <<"none", "auto", "required">>)
                  ELSE /\ document.shape \in {"number", "array", "bool", "null"}
                       /\ ~decoded.ok
                       /\ decoded.v = NoValue
                       /\ decoded.err.kind = "invalid type"

C16_Witness ==
    /\ codec = "ToolChoice.deserialize"
    /\ document = JNull
    /\ decoded.err.kind = "invalid type"

(***************************************************************************)
(* C17: encoding shape: None, Auto, Required are the bare strings none,    *)
(* auto, required; the three built-in tools are an object with the single  *)
(* field type; Function(name) is an object with exactly name, then type.   *)
(***************************************************************************)
C17_ToolChoiceEncodingShape ==
    codec = "ToolChoice.serialize"
        => CASE value = Unit("None") -> document = JStr("none")
             [] value = Unit("Auto") -> document = JStr("auto")
             [] value = Unit("Required") -> document = JStr("required")
             [] value = Unit("FileSearch") ->
                  document = JObj(<<Entry("type", JStr("file_search"))>>)
             [] value = Unit("WebSearchPreview") ->
                  document = JObj(<<Entry("type", JStr("web_search_preview"))>>)
             [] value = Unit("ComputerUsePreview") ->
                  document = JObj(<<Entry("type", JStr("computer_use_preview"))>>)
             [] OTHER ->
                  /\ value.variant = "Function"
                  /\ document.shape = "object"
                  /\ Len(document.fields) = 2
                  /\ document.fields[1] = Entry("name", JStr(value.name))
                  /\ document.fields[2] = Entry("type", JStr("function"))

C17_Witness ==
    /\ codec = "ToolChoice.serialize"
    /\ value = Carrying("Function", "auto")
    /\ document.fields[1].key = "name"

(***************************************************************************)
(* C18: a Request field that was never set (None) is absent from the       *)
(* encoded document, not present with the value null.                      *)
(***************************************************************************)
C18_UnsetFieldsAreOmitted ==
    codec = "Request.serialize"
        => \A f \in OptionFields : value[f] = None => ~HasKey(document.fields, f)

(***************************************************************************)
(* C19: Model is an open union: a string that is none of the named         *)
(* identifiers always decodes, to Other carrying exactly that string, and  *)
(* Other(s) encodes to the bare string s.                                  *)
(***************************************************************************)
C19_ModelOpenUnion ==
    /\ (codec = "Model.deserialize" /\ document.shape = "string"
            /\ document.str \notin ModelIds)
         => decoded = DecodedOk(Carrying("Other", document.str))
    /\ (codec = "Model.serialize" /\ value.variant = "Other")
         => document = JStr(value.name)

C19_Witness ==
    /\ codec = "Model.deserialize"
    /\ document = JStr("GPT-4O")
    /\ decoded = DecodedOk(Carrying("Other", "GPT-4O"))

(***************************************************************************)
(* C20: build without an API key fails with ApiKeyNotFound and makes no    *)
(* Client, whatever organization and project were given, valid as header   *)
(* values or not; no request has been made.                                *)
(***************************************************************************)
C20_MissingKeyComesFirst ==
    (built # NoBuilt /\ builder.api_key = None)
        => /\ built = BuildErr("ApiKeyNotFound")
           /\ call = "none"
           /\ wire = NoRequest

C20_Witness ==
    /\ builder.api_key = None
    /\ builder.organization = Some(<<115, 10, 107>>)
    /\ builder.project = Some(<<115, 107>>)
    /\ built = BuildErr("ApiKeyNotFound")

InvalidInHeader(b) == (b < 32 /\ b # 9) \/ b = 127
HasInvalidChar(opt) == opt # None /\ \E i \in 1..Len(opt[1]) : InvalidInHeader(opt[1][i])

(***************************************************************************)
(* C21: build with an API key present fails with InvalidApiKey and makes   *)
(* no Client whenever the API key, the organization or the project holds a *)
(* character that is invalid in a header value (a control character other  *)
(* than tab, such as a newline, or DEL).                                   *)
(***************************************************************************)
C21_InvalidHeaderValueRejected ==
    (/\ built # NoBuilt
     /\ builder.api_key # None
     /\ \/ HasInvalidChar(builder.api_key)
        \/ HasInvalidChar(builder.organization)
        \/ HasInvalidChar(builder.project))
        => built = BuildErr("InvalidApiKey")

C21_Witness ==
    /\ builder.api_key = Some(<<115, 107>>)
    /\ builder.organization = None
    /\ builder.project = Some(<<115, 10, 107>>)
    /\ built = BuildErr("InvalidApiKey")

CarriesHeader(name, text) ==
    /\ HasHeader(onWire, name)
    /\ \A i \in 1..Len(onWire) : onWire[i].name = name => onWire[i].text = text
CarriesOptional(name, opt) ==
    IF opt = None THEN ~HasHeader(onWire, name) ELSE CarriesHeader(name, opt[1])

(***************************************************************************)
(* C22: every request of a Client built with key k, organization o and     *)
(* project p carries authorization: Bearer k, openai-organization: o and   *)
(* openai-project: p, and carries no header for an option left unset.      *)
(***************************************************************************)
C22_DefaultHeadersOnEveryRequest ==
    onWire # NoSent
        => /\ builder.api_key # None
           /\ CarriesHeader("authorization",
                            <<66, 101, 97, 114, 101, 114, 32>> \o builder.api_key[1])
           /\ CarriesOptional("openai-organization", builder.organization)
           /\ CarriesOptional("openai-project", builder.project)

C22_Witness ==
    /\ builder.api_key = Some(<<115, 107>>)
    /\ builder.organization = Some(<<9>>)
    /\ builder.project = None
    /\ HasHeader(onWire, "accept")
    /\ HasHeader(onWire, "openai-organization")

\* every element the generator of sequence i has emitted
SeqHanded(i) ==
    IF seqs[i].slot = NoElement THEN seqs[i].yielded
    ELSE Append(seqs[i].yielded, seqs[i].slot)
\* the element that one notification of a transport determines
ElementIs(n, el) ==
    IF IsFatal(n) THEN el = ErrStream(n.data)
    ELSE IF WellFormed(n.data) THEN el = ExpectedEvent(n.data)
    ELSE el.tag = "Parsing"
DeterminedByOwnTransport(i) ==
    LET bearing == SelectSeq(seqs[i].consumed, BearsElement) IN
    /\ Len(SeqHanded(i)) = Len(bearing)
    /\ \A k \in 1..Len(bearing) : ElementIs(bearing[k], SeqHanded(i)[k])

(***************************************************************************)
(* C23: concurrent stream calls on one Client are independent: every call  *)
(* has an event source of its own, and under every interleaving of the     *)
(* pulls on two sequences the elements of each sequence are exactly those  *)
(* its own transport determines, in order: nothing of the other sequence   *)
(* is added, lost or reordered.                                            *)
(***************************************************************************)
C23_ConcurrentStreamsIndependent ==
    /\ \A i \in SeqIds : DeterminedByOwnTransport(i)
    /\ \A i, j \in SeqIds :
          (i # j /\ seqs[i].source # 0 /\ seqs[j].source # 0)
              => seqs[i].source # seqs[j].source

C23_Witness ==
    /\ seqs["a"].consumed = <<Message(PayloadCreated), Error("Transport")>>
    /\ seqs["b"].consumed = <<Message(PayloadNotJson), Message(PayloadCreated)>>
    /\ Len(seqs["a"].yielded) = 1
    /\ seqs["a"].slot = ErrStream("Transport")
    /\ Len(seqs["b"].yielded) = 2
    /\ seqs["b"].yielded[2] = OkEvent("ResponseCreated")

HyphenatedTag(variant) ==
    CASE variant = "Function" -> "function"
      [] variant = "FileSearch" -> "file_search"
      [] variant = "ComputerUse" -> "computer-use-preview"
      [] variant = "WebSearch" -> "web-search-preview"
UnderscoredTag(variant) ==
    CASE variant = "Function" -> "function"
      [] variant = "FileSearch" -> "file_search"
      [] variant = "ComputerUse" -> "computer_use_preview"
      [] variant = "WebSearch" -> "web_search_preview"
TypeTag == Lookup(document.fields, "type")
HasAllFieldsOf(variant) ==
    \A k \in 1..Len(FieldsOfTool(variant)) :
        HasKey(document.fields, FieldsOfTool(variant)[k])

(***************************************************************************)
(* C24 as stated: every Tool variant is encoded with, and decoded from, a  *)
(* type tag: function, file_search, and for the renamed cases ComputerUse  *)
(* and WebSearch computer-use-preview and web-search-preview.              *)
(***************************************************************************)
C24_ToolTagsHyphenated ==
    /\ codec = "Tool.serialize" => TypeTag = JStr(HyphenatedTag(value.variant))
    /\ (codec = "Tool.deserialize" /\ decoded.ok)
          => TypeTag = JStr(HyphenatedTag(decoded.v.variant))

(***************************************************************************)
(* C24 amended: the same with the tags the code uses for the renamed       *)
(* cases, computer_use_preview and web_search_preview: a Tool is encoded   *)
(* with the tag of its variant, a document decodes only to the variant its *)
(* tag names, and a document with the tag and the fields of a variant      *)
(* decodes to that variant.                                                *)
(***************************************************************************)
C24_ToolTagsUnderscored ==
    /\ codec = "Tool.serialize" => TypeTag = JStr(UnderscoredTag(value.variant))
    /\ (codec = "Tool.deserialize" /\ decoded.ok)
          => TypeTag = JStr(UnderscoredTag(decoded.v.variant))
    /\ codec = "Tool.deserialize"
          => \A v \in ToolVariants :
                (document.shape = "object" /\ TypeTag = JStr(UnderscoredTag(v))
                    /\ HasAllFieldsOf(v))
                  => (decoded.ok /\ decoded.v.variant = v)

C24_Witness ==
    /\ codec = "Tool.deserialize"
    /\ TypeTag = JStr("web_search_preview")
    /\ decoded.ok
    /\ decoded.v.variant = "WebSearch"

(***************************************************************************)
(* C25: the stream eventually ends: with a consumer that keeps pulling and *)
(* never drops the sequence, once the transport has reported the expected  *)
(* end or has closed, the sequence terminates; it does so with no element  *)
(* for the end itself, and yields nothing once it has ended.               *)
(***************************************************************************)
C25_StreamEventuallyEnds ==
    /\ ([]~dropped) => ((pc = "done") ~> ended)
    /\ [](ended => /\ pc = "done"
                   /\ slot = NoElement
                   /\ Len(yielded) = ElemCount(consumed)
                   /\ \/ consumed[Len(consumed)] = Closed
                      \/ IsExpectedEnd(consumed[Len(consumed)]))
    /\ [][ended => (ended' /\ yielded' = yielded /\ slot' = NoElement)]_vars

C25_Witness ==
    /\ ended
    /\ Len(consumed) = 3
    /\ IsFatal(consumed[1])
    /\ IsValidMessage(consumed[2])
    /\ consumed[3] = Closed
    /\ Len(yielded) = 2

NotMalformed(n) == ~IsMalformedMessage(n)
NotParsing(el) == el.tag # "Parsing"
MalformedRemoved(script) == SelectSeq(script, NotMalformed)
ParsingRemoved(elements) == SelectSeq(elements, NotParsing)
EndsScript(n) == n = Closed \/ IsExpectedEnd(n)

(***************************************************************************)
(* C26: a malformed frame changes nothing else: whenever the script one    *)
(* sequence has taken is the script of another with the malformed message  *)
(* frames removed, its elements are those of the other with the            *)
(* Err(Parsing) elements removed; and a generator stops taking its script  *)
(* only at the notification that ends it, never at a malformed frame.      *)
(***************************************************************************)
C26_MalformedFramesOnlyAddParsing ==
    /\ \A i, j \in SeqIds :
          seqs[j].consumed = MalformedRemoved(seqs[i].consumed)
              => SeqHanded(j) = ParsingRemoved(SeqHanded(i))
    /\ \A i \in SeqIds :
          seqs[i].pc = "done"
              => EndsScript(seqs[i].consumed[Len(seqs[i].consumed)])

C26_Witness ==
    /\ seqs["a"].consumed = <<Message(PayloadNotJson), Message(PayloadCreated)>>
    /\ seqs["b"].consumed = <<Message(PayloadCreated)>>
    /\ seqs["a"].yielded = <<ErrParsing("syntax"), OkEvent("ResponseCreated")>>
    /\ seqs["b"].yielded = <<OkEvent("ResponseCreated")>>

KeysOf(entries) == [i \in 1..Len(entries) |-> entries[i].key]
BodyOf(codecState) == codecState \in {"Client.create", "Client.stream"}

(***************************************************************************)
(* C27: frame condition of create and stream: the body sent has the fields *)
(* of Request in their order; stream is false for create and true for      *)
(* stream; every other field is encoded exactly as in the request the      *)
(* caller supplied.                                                        *)
(***************************************************************************)
C27_OnlyStreamChanges ==
    BodyOf(codec) =>
        /\ KeysOf(document.fields) = RequestFields
        /\ Lookup(document.fields, "stream") = JBool(codec = "Client.stream")
        /\ \A f \in (OptionFields \cup RequiredFields) \ {"stream"} :
              Lookup(document.fields, f) = Lookup(SerializeRequest(value).fields, f)

C27_Witness ==
    /\ codec = "Client.create"
    /\ value["stream"] = Some(JBool(TRUE))
    /\ value["store"] = Some(SampleOf("store"))
    /\ Lookup(document.fields, "stream") = JBool(FALSE)
    /\ Lookup(document.fields, "store") = SampleOf("store")

(***************************************************************************)
(* C28: Model::from(s) is the value that decoding the wire string s gives: *)
(* each named identifier yields its named variant, any other string yields *)
(* Other carrying it.                                                      *)
(***************************************************************************)
C28_ModelFromAgreesWithDecoding ==
    codec = "Model.from" =>
        /\ decoded = DecodedOk(value)
        /\ document.str \in ModelIds => value = Unit(ModelVariantOf(document.str))
        /\ document.str \notin ModelIds => value = Carrying("Other", document.str)

====
